---- MODULE Spec2Model ----
(***************************************************************************)
(* Model of crates/evm/src/fuzz/mod.rs: FuzzedExecutor::fuzz, the callback *)
(* it hands to the proptest runner, FuzzedExecutor::single_fuzz and the    *)
(* end-of-session reduction into a FuzzTestResult.                         *)
(*                                                                         *)
(* Option<T> is modelled as a sequence: <<>> is None, <<v>> is Some(v).    *)
(***************************************************************************)
EXTENDS Integers, Sequences, FiniteSets, TLC

\* ------------------------------------------------------------------ bounds
NumArgs == 2
MaxShrink == 2
MaxWeight == 120
MaxLen == 3
MaxGas == 2
MaxArgBytes == 2
\* runner configuration (proptest Config::cases)
Cases == 2

\* runner configuration (proptest Config::max_global_rejects)
max_global_rejects == 1

\* ----------------------------------------------------------------- options
None == <<>>
Some(v) == <<v>>
IsSome(o) == o # <<>>
Unwrap(o) == o[1]

\* ------------------------------------------------------------------- bytes
\* the 4-byte selector of the fuzzed function
Selector == <<1, 2, 3, 4>>
\* Bytes::default()
DefaultBytes == <<>>
\* the calldata values the strategy produces: selector ++ one encoded argument
Inputs == { Selector \o <<a>> : a \in 1..NumArgs }

\* return payloads of the executor
ASSUME_MAGIC_RETURN_CODE == "FOUNDRY::ASSUME"
RevertMsgBytes == "Error(msg)"
PlainBytes == ""

\* error strings (Display of FuzzError, abort messages of proptest)
FailedContractCall == "failed contract call"
EmptyChangeset == "empty changeset"
AssumeReject == "assume rejected"
TooManyRejects(n) == "too many rejects (n = " \o ToString(n) \o ")"
TooManyGlobalRejects == "Too many global rejects"
TooManyLocalRejects == "Too many local rejects"
UnwrapNonePanic == "called Option::unwrap() on a None value"

\* ------------------------------------------------------- executor behaviour
\* What the executor does for one calldata: call_raw errs, or returns a
\* RawCallResult.  hasTrace/hasCov/hasLogs say whether the result carries a
\* trace, a coverage map, logs.
Behaviour(err, cs, res, rev, gas, stip, tr, cov, lg) ==
    [err |-> err, state_changeset |-> cs, result |-> res, reverted |-> rev,
     gas_used |-> gas, stipend |-> stip, hasTrace |-> tr, hasCov |-> cov,
     hasLogs |-> lg]

Changeset == Some("changeset")

BehaviourList ==
    << Behaviour(FALSE, Changeset, PlainBytes, FALSE, 5, 2, TRUE, TRUE, TRUE),
       Behaviour(FALSE, Changeset, PlainBytes, FALSE, 3, 1, FALSE, FALSE, FALSE),
       Behaviour(FALSE, Changeset, RevertMsgBytes, TRUE, 4, 2, TRUE, TRUE, TRUE),
       Behaviour(FALSE, Changeset, PlainBytes, TRUE, 2, 1, FALSE, FALSE, FALSE),
       Behaviour(FALSE, Changeset, ASSUME_MAGIC_RETURN_CODE, TRUE, 1, 0, TRUE, FALSE, FALSE),
       Behaviour(FALSE, Changeset, ASSUME_MAGIC_RETURN_CODE, FALSE, 1, 0, FALSE, FALSE, FALSE),
       Behaviour(FALSE, None, ASSUME_MAGIC_RETURN_CODE, TRUE, 1, 0, FALSE, FALSE, FALSE),
       Behaviour(FALSE, None, PlainBytes, FALSE, 1, 0, FALSE, FALSE, FALSE),
       Behaviour(TRUE, None, PlainBytes, FALSE, 0, 0, FALSE, FALSE, FALSE) >>

Behaviours == { BehaviourList[i] : i \in 1..Len(BehaviourList) }

\* the executors explored: each input is given any of the behaviours
Executors == [Inputs -> Behaviours]

VARIABLES
    \* inputs of the session
    exec,               \* the (deterministic) executor: Inputs -> Behaviours
    should_fail,        \* the should_fail argument of fuzz
    dictionary_weight,  \* self.config.dictionary.dictionary_weight
    \* control
    pc,                 \* "start", "main", "shrink", "reduce", "done", "panic"
    \* the locals of fuzz
    first_case, gas_by_case, counterexample, traces, coverage,
    state,              \* EvmFuzzState: the values absorbed into the dictionary
    weights,            \* the list handed to Union::new_weighted
    \* bookkeeping of the runner
    successes, rejects, shrinks, last_reason,
    run_result,         \* Option<Result<(), TestError>>
    result,             \* Option<FuzzTestResult>
    \* history of the callback invocations
    iter,               \* number of callback invocations so far
    last,               \* Option<[input, outcome]> of the latest invocation
    lastCE,             \* Option<calldata> of the latest CounterExample
    lastCase,           \* Option<calldata> of the latest Case
    firstCE,            \* Option<calldata> of the first CounterExample
    caseLog,            \* the calldata of every Case so far, in order
    okCount,            \* number of invocations that returned Ok(())
    \* FuzzedCases and BaseCounterExample::create, run on their own
    cases,              \* the Vec<FuzzCase> given to / held by FuzzedCases
    gas_out,            \* Option of what highest_gas returned
    create_in,          \* the arguments of BaseCounterExample::create
    create_out          \* Option of what create returned

vars == <<exec, should_fail, dictionary_weight, pc, first_case, gas_by_case,
          counterexample, traces, coverage, state, weights, successes,
          rejects, shrinks, last_reason, run_result, result, iter, last,
          lastCE, lastCase, firstCE, caseLog, okCount, cases, gas_out,
          create_in, create_out>>

viewVars == <<cases, gas_out, create_in, create_out>>
inputVars == <<exec, should_fail, dictionary_weight>>
cellVars == <<first_case, gas_by_case, counterexample, traces, coverage>>
runnerVars == <<successes, rejects, shrinks, last_reason>>
histVars == <<iter, last, lastCE, lastCase, firstCE, caseLog, okCount>>

\* ------------------------------------------------------------ RawCallResult
\* RawCallResult::default()
DefaultCall ==
    [result |-> PlainBytes, reverted |-> FALSE, gas_used |-> 0, stipend |-> 0,
     logs |-> <<>>, traces |-> None, coverage |-> None,
     state_changeset |-> None]

\* the coverage map a call with coverage reports: one hit of its own pc
\* (the argument byte) and one hit of the shared entry pc 0
CoverageOf(calldata) == (0 :> 1) @@ (calldata[5] :> 1)

\* executor.call_raw(sender, address, calldata, 0): Err, or Ok(RawCallResult)
call_raw(calldata) ==
    LET b == exec[calldata] IN
    IF b.err THEN [ok |-> FALSE]
    ELSE [ok |-> TRUE,
          call |-> [result |-> b.result, reverted |-> b.reverted,
                    gas_used |-> b.gas_used, stipend |-> b.stipend,
                    logs |-> IF b.hasLogs THEN <<calldata>> ELSE <<>>,
                    traces |-> IF b.hasTrace THEN Some(calldata) ELSE None,
                    coverage |-> IF b.hasCov THEN Some(CoverageOf(calldata))
                                 ELSE None,
                    state_changeset |-> b.state_changeset]]

\* executor.is_success(address, reverted, state_changeset, should_fail)
is_success(reverted, sf) == IF sf THEN reverted ELSE ~reverted

\* decode::decode_revert(..).unwrap_or_default()
decode_revert(bytes) == IF bytes = RevertMsgBytes THEN "msg" ELSE ""

\* func.decode_input(&calldata[4..]).unwrap_or_default()
decode_input(calldata) == SubSeq(calldata, 5, Len(calldata))

\* HitMaps::merge: union of the program counters, hit counts added
merge(prev, other) ==
    [p \in (DOMAIN prev) \cup (DOMAIN other) |->
        (IF p \in DOMAIN prev THEN prev[p] ELSE 0)
      + (IF p \in DOMAIN other THEN other[p] ELSE 0)]

\* collect_state_from_call(&call.logs, state_changeset, state, config)
collect_state_from_call(calldata, st) == st \cup {calldata}

\* single_fuzz with the assume check moved behind the success check
single_fuzz_assume_after_success(sf, calldata) ==
    LET r == call_raw(calldata) IN
    IF ~r.ok THEN
        [kind |-> "Fail", reason |-> FailedContractCall, absorbed |-> FALSE]
    ELSE IF ~IsSome(r.call.state_changeset) THEN
        [kind |-> "Fail", reason |-> EmptyChangeset, absorbed |-> FALSE]
    ELSE IF is_success(r.call.reverted, sf) THEN
        [kind |-> "Case", absorbed |-> TRUE,
         case |-> [calldata |-> calldata, gas |-> r.call.gas_used,
                   stipend |-> r.call.stipend],
         traces |-> r.call.traces, coverage |-> r.call.coverage]
    ELSE IF r.call.result = ASSUME_MAGIC_RETURN_CODE THEN
        [kind |-> "Reject", reason |-> AssumeReject, absorbed |-> TRUE]
    ELSE
        [kind |-> "CounterExample", absorbed |-> TRUE,
         counterexample |-> [calldata |-> calldata, call |-> r.call]]

\* single_fuzz feeding the dictionary only after the assume check
single_fuzz_absorb_after_assume(sf, calldata) ==
    LET r == call_raw(calldata) IN
    IF ~r.ok THEN
        [kind |-> "Fail", reason |-> FailedContractCall, absorbed |-> FALSE]
    ELSE IF ~IsSome(r.call.state_changeset) THEN
        [kind |-> "Fail", reason |-> EmptyChangeset, absorbed |-> FALSE]
    ELSE IF r.call.result = ASSUME_MAGIC_RETURN_CODE THEN
        [kind |-> "Reject", reason |-> AssumeReject, absorbed |-> FALSE]
    ELSE IF is_success(r.call.reverted, sf) THEN
        [kind |-> "Case", absorbed |-> TRUE,
         case |-> [calldata |-> calldata, gas |-> r.call.gas_used,
                   stipend |-> r.call.stipend],
         traces |-> r.call.traces, coverage |-> r.call.coverage]
    ELSE
        [kind |-> "CounterExample", absorbed |-> TRUE,
         counterexample |-> [calldata |-> calldata, call |-> r.call]]

\* ------------------------------------------------------------- single_fuzz
\* kind "Case" / "CounterExample" are Ok(FuzzOutcome); "Fail" / "Reject" are
\* Err(TestCaseError); absorbed says whether the dictionary was fed.
single_fuzz(sf, calldata) ==
    LET r == call_raw(calldata) IN
    IF ~r.ok THEN
        [kind |-> "Fail", reason |-> FailedContractCall, absorbed |-> FALSE]
    ELSE IF ~IsSome(r.call.state_changeset) THEN
        [kind |-> "Fail", reason |-> EmptyChangeset, absorbed |-> FALSE]
    ELSE IF r.call.result = ASSUME_MAGIC_RETURN_CODE THEN
        [kind |-> "Reject", reason |-> AssumeReject, absorbed |-> TRUE]
    ELSE IF is_success(r.call.reverted, sf) THEN
        [kind |-> "Case", absorbed |-> TRUE,
         case |-> [calldata |-> calldata, gas |-> r.call.gas_used,
                   stipend |-> r.call.stipend],
         traces |-> r.call.traces, coverage |-> r.call.coverage]
    ELSE
        [kind |-> "CounterExample", absorbed |-> TRUE,
         counterexample |-> [calldata |-> calldata, call |-> r.call]]

\* ------------------------------------------------- the callback of fuzz
DefaultCounterExample == [calldata |-> DefaultBytes, call |-> DefaultCall]

\* the Case arm, also writing the counter-example slot
on_case_stores_slot(o) ==
    [first_case |-> IF IsSome(first_case) THEN first_case ELSE Some(o.case),
     gas_by_case |-> Append(gas_by_case, <<o.case.gas, o.case.stipend>>),
     counterexample |-> [calldata |-> o.case.calldata, call |-> DefaultCall],
     traces |-> o.traces,
     coverage |-> IF IsSome(coverage)
                  THEN IF IsSome(o.coverage)
                       THEN Some(merge(Unwrap(coverage), Unwrap(o.coverage)))
                       ELSE None
                  ELSE o.coverage,
     ret |-> IF IsSome(coverage) /\ ~IsSome(o.coverage)
             THEN [kind |-> "Panic", reason |-> UnwrapNonePanic]
             ELSE [kind |-> "Ok", reason |-> ""]]

\* the Case arm replacing first_case on every Case
on_case_overwrites_first(o) ==
    [first_case |-> Some(o.case),
     gas_by_case |-> Append(gas_by_case, <<o.case.gas, o.case.stipend>>),
     counterexample |-> counterexample,
     traces |-> o.traces,
     coverage |-> IF IsSome(coverage)
                  THEN IF IsSome(o.coverage)
                       THEN Some(merge(Unwrap(coverage), Unwrap(o.coverage)))
                       ELSE None
                  ELSE o.coverage,
     ret |-> IF IsSome(coverage) /\ ~IsSome(o.coverage)
             THEN [kind |-> "Panic", reason |-> UnwrapNonePanic]
             ELSE [kind |-> "Ok", reason |-> ""]]

\* the Case arm replacing the coverage instead of merging it
on_case_replaces_coverage(o) ==
    [first_case |-> IF IsSome(first_case) THEN first_case ELSE Some(o.case),
     gas_by_case |-> Append(gas_by_case, <<o.case.gas, o.case.stipend>>),
     counterexample |-> counterexample,
     traces |-> o.traces,
     coverage |-> o.coverage,
     ret |-> [kind |-> "Ok", reason |-> ""]]

\* the Case arm: the cells after it, and whether coverage.unwrap() panicked
on_case(o) ==
    [first_case |-> IF IsSome(first_case) THEN first_case ELSE Some(o.case),
     gas_by_case |-> Append(gas_by_case, <<o.case.gas, o.case.stipend>>),
     counterexample |-> counterexample,
     traces |-> o.traces,
     coverage |-> IF IsSome(coverage)
                  THEN IF IsSome(o.coverage)
                       THEN Some(merge(Unwrap(coverage), Unwrap(o.coverage)))
                       ELSE None
                  ELSE o.coverage,
     ret |-> IF IsSome(coverage) /\ ~IsSome(o.coverage)
             THEN [kind |-> "Panic", reason |-> UnwrapNonePanic]
             ELSE [kind |-> "Ok", reason |-> ""]]

\* the CounterExample arm, also dropping the retained trace
on_counterexample_clears_traces(o) ==
    [first_case |-> first_case, gas_by_case |-> gas_by_case,
     counterexample |-> o.counterexample,
     traces |-> None, coverage |-> coverage,
     ret |-> [kind |-> "Fail",
              reason |-> decode_revert(o.counterexample.call.result)]]

\* the CounterExample arm, writing the slot only while it is still empty
on_counterexample_keeps_first(o) ==
    [first_case |-> first_case, gas_by_case |-> gas_by_case,
     counterexample |-> IF counterexample.calldata = DefaultBytes
                        THEN o.counterexample ELSE counterexample,
     traces |-> traces, coverage |-> coverage,
     ret |-> [kind |-> "Fail",
              reason |-> decode_revert(o.counterexample.call.result)]]

\* the CounterExample arm
on_counterexample(o) ==
    [first_case |-> first_case, gas_by_case |-> gas_by_case,
     counterexample |-> o.counterexample,
     traces |-> traces, coverage |-> coverage,
     ret |-> [kind |-> "Fail",
              reason |-> decode_revert(o.counterexample.call.result)]]

\* the ? on single_fuzz: the error goes to the runner, the cells are untouched
on_error(o) ==
    [first_case |-> first_case, gas_by_case |-> gas_by_case,
     counterexample |-> counterexample,
     traces |-> traces, coverage |-> coverage,
     ret |-> [kind |-> o.kind, reason |-> o.reason]]

\* |calldata| { ... }: the cells after one invocation and what it returns
callback(calldata) ==
    LET o == single_fuzz(should_fail, calldata) IN
    CASE o.kind = "Case" -> on_case(o)
      [] o.kind = "CounterExample" -> on_counterexample(o)
      [] OTHER -> on_error(o)

\* one invocation of the callback: the cells, the dictionary and the history
Invoke(calldata) ==
    LET o == single_fuzz(should_fail, calldata)
        c == callback(calldata) IN
    /\ first_case' = c.first_case
    /\ gas_by_case' = c.gas_by_case
    /\ counterexample' = c.counterexample
    /\ traces' = c.traces
    /\ coverage' = c.coverage
    /\ state' = IF o.absorbed THEN collect_state_from_call(calldata, state)
                ELSE state
    /\ iter' = iter + 1
    /\ last' = Some([input |-> calldata, outcome |-> o.kind, ret |-> c.ret.kind])
    /\ lastCE' = IF o.kind = "CounterExample" THEN Some(calldata) ELSE lastCE
    /\ lastCase' = IF o.kind = "Case" THEN Some(calldata) ELSE lastCase
    /\ firstCE' = IF o.kind = "CounterExample" /\ ~IsSome(firstCE)
                  THEN Some(calldata) ELSE firstCE
    /\ caseLog' = IF o.kind = "Case" THEN Append(caseLog, calldata)
                  ELSE caseLog
    /\ okCount' = IF c.ret.kind = "Ok" THEN okCount + 1 ELSE okCount

\* ------------------------------------------------------------ TestError
RunOk == [kind |-> "Ok", reason |-> "", input |-> DefaultBytes]
Abort(reason) == [kind |-> "Abort", reason |-> reason, input |-> DefaultBytes]
Fail(reason, input) == [kind |-> "Fail", reason |-> reason, input |-> input]

\* --------------------------------------------------------------- actions
Init ==
    /\ exec \in Executors
    /\ should_fail \in BOOLEAN
    /\ dictionary_weight \in {40}
    /\ pc = "start"
    /\ first_case = None
    /\ gas_by_case = <<>>
    /\ counterexample = DefaultCounterExample
    /\ traces = None
    /\ coverage = None
    /\ state = {}
    /\ weights = <<>>
    /\ successes = 0
    /\ rejects = 0
    /\ shrinks = 0
    /\ last_reason = ""
    /\ run_result = None
    /\ result = None
    /\ iter = 0
    /\ last = None
    /\ lastCE = None
    /\ lastCase = None
    /\ firstCE = None
    /\ caseLog = <<>>
    /\ okCount = 0
    /\ cases = <<>>
    /\ gas_out = None
    /\ create_in = None
    /\ create_out = None

\* build_weights pushing both strategies whatever the weight
build_weights_always_both(cfg_weight) ==
    LET dw == IF cfg_weight < 100 THEN cfg_weight ELSE 100
    IN << <<100 - dw, "fuzz_calldata">>,
          <<cfg_weight, "fuzz_calldata_from_state">> >>

\* build_weights with <= in the first test: the uniform strategy stays, at 0
build_weights_uniform_kept(cfg_weight) ==
    LET dw == IF cfg_weight < 100 THEN cfg_weight ELSE 100
        uniform == IF cfg_weight <= 100
                   THEN << <<100 - dw, "fuzz_calldata">> >> ELSE <<>>
        dict == IF dw > 0
                THEN << <<cfg_weight, "fuzz_calldata_from_state">> >> ELSE <<>>
    IN uniform \o dict

\* the weighted list of sub-strategies
build_weights(cfg_weight) ==
    LET dw == IF cfg_weight < 100 THEN cfg_weight ELSE 100
        uniform == IF cfg_weight < 100
                   THEN << <<100 - dw, "fuzz_calldata">> >> ELSE <<>>
        dict == IF dw > 0
                THEN << <<cfg_weight, "fuzz_calldata_from_state">> >> ELSE <<>>
    IN uniform \o dict

\* fuzz up to the call of runner.run
Start ==
    /\ pc = "start"
    /\ weights' = build_weights(dictionary_weight)
    /\ pc' = "main"
    /\ UNCHANGED <<viewVars, inputVars, cellVars, state, runnerVars, run_result, result,
                   histVars>>

\* the runner draws an input and runs the callback on it
RunCase ==
    /\ pc = "main"
    /\ successes < Cases
    /\ \E calldata \in Inputs, caught \in BOOLEAN :
        LET ret == callback(calldata).ret IN
        /\ Invoke(calldata)
        /\ CASE ret.kind = "Ok" ->
                  /\ successes' = successes + 1
                  /\ UNCHANGED <<rejects, last_reason, run_result, pc>>
             [] ret.kind = "Reject" ->
                  IF rejects >= max_global_rejects
                  THEN /\ run_result' = Some(Abort(TooManyGlobalRejects))
                       /\ pc' = "reduce"
                       /\ UNCHANGED <<successes, rejects, last_reason>>
                  ELSE /\ rejects' = rejects + 1
                       /\ UNCHANGED <<successes, last_reason, run_result, pc>>
             [] ret.kind = "Fail" ->
                  /\ last_reason' = ret.reason
                  /\ pc' = "shrink"
                  /\ UNCHANGED <<successes, rejects, run_result>>
             [] ret.kind = "Panic" ->
                  /\ last_reason' = ret.reason
                  /\ pc' = IF caught THEN "shrink" ELSE "panic"
                  /\ UNCHANGED <<successes, rejects, run_result>>
    /\ UNCHANGED <<viewVars, inputVars, weights, shrinks, result>>

\* the runner found every case passing
RunPassed ==
    /\ pc = "main"
    /\ successes = Cases
    /\ run_result' = Some(RunOk)
    /\ pc' = "reduce"
    /\ UNCHANGED <<viewVars, inputVars, cellVars, state, weights, runnerVars, result,
                   histVars>>

\* the runner gives up for a reason of its own
RunAbort ==
    /\ pc = "main"
    /\ successes < Cases
    /\ run_result' = Some(Abort(TooManyLocalRejects))
    /\ pc' = "reduce"
    /\ UNCHANGED <<viewVars, inputVars, cellVars, state, weights, runnerVars, result,
                   histVars>>

\* a shrink iteration: the runner re-drives the callback after a failure
ShrinkCase ==
    /\ pc = "shrink"
    /\ shrinks < MaxShrink
    /\ \E calldata \in Inputs, caught \in BOOLEAN :
        LET ret == callback(calldata).ret IN
        /\ Invoke(calldata)
        /\ shrinks' = shrinks + 1
        /\ CASE ret.kind \in {"Ok", "Reject"} ->
                  UNCHANGED <<last_reason, pc>>
             [] ret.kind = "Fail" ->
                  /\ last_reason' = ret.reason
                  /\ UNCHANGED pc
             [] ret.kind = "Panic" ->
                  /\ last_reason' = ret.reason
                  /\ pc' = IF caught THEN "shrink" ELSE "panic"
    /\ UNCHANGED <<viewVars, inputVars, weights, successes, rejects, run_result, result>>

\* the runner ends shrinking and reports Fail with the input it ended on
ShrinkDone ==
    /\ pc = "shrink"
    /\ \E final \in Inputs :
        run_result' = Some(Fail(last_reason, final))
    /\ pc' = "reduce"
    /\ UNCHANGED <<viewVars, inputVars, cellVars, state, weights, runnerVars, result,
                   histVars>>

\* decode_console_logs(&call.logs)
decode_console_logs(logs) == [i \in 1..Len(logs) |-> <<"decoded", logs[i]>>]

DefaultFuzzCase == [calldata |-> DefaultBytes, gas |-> 0, stipend |-> 0]

\* base_result taking the traces from the traces cell on every path
base_result_traces_cell(rr) ==
    [first_case |-> IF IsSome(first_case) THEN Unwrap(first_case)
                    ELSE DefaultFuzzCase,
     gas_by_case |-> gas_by_case,
     success |-> rr.kind = "Ok",
     reason |-> None,
     counterexample |-> None,
     decoded_logs |-> decode_console_logs(counterexample.call.logs),
     logs |-> counterexample.call.logs,
     traces |-> traces,
     coverage |-> coverage]

\* the FuzzTestResult before the match on run_result
base_result(rr) ==
    [first_case |-> IF IsSome(first_case) THEN Unwrap(first_case)
                    ELSE DefaultFuzzCase,
     gas_by_case |-> gas_by_case,
     success |-> rr.kind = "Ok",
     reason |-> None,
     counterexample |-> None,
     decoded_logs |-> decode_console_logs(counterexample.call.logs),
     logs |-> counterexample.call.logs,
     traces |-> IF rr.kind = "Ok" THEN traces ELSE counterexample.call.traces,
     coverage |-> coverage]

\* the BaseCounterExample built from the final input the runner reports
build_counterexample_from_final(slot) ==
    [sender |-> None, addr |-> None, signature |-> None,
     contract_name |-> None, traces |-> slot.call.traces,
     calldata |-> Unwrap(run_result).input,
     args |-> decode_input(Unwrap(run_result).input)]

\* the BaseCounterExample of the Fail arm
build_counterexample(slot) ==
    [sender |-> None, addr |-> None, signature |-> None,
     contract_name |-> None, traces |-> slot.call.traces,
     calldata |-> slot.calldata, args |-> decode_input(slot.calldata)]

\* reduce building a counter-example for every run that did not pass
reduce_counterexample_on_abort(rr) ==
    LET base == base_result(rr) IN
    IF rr.kind = "Ok" THEN base
    ELSE [base EXCEPT !.reason = IF rr.reason = "" THEN None
                                 ELSE Some(rr.reason),
                      !.counterexample =
                          Some(build_counterexample(counterexample))]

\* reduce without the arm for the global-reject abort
reduce_raw_abort_reason(rr) ==
    LET base == base_result(rr) IN
    CASE rr.kind = "Abort" ->
            [base EXCEPT !.reason = Some(rr.reason)]
      [] rr.kind = "Fail" ->
            [base EXCEPT !.reason = IF rr.reason = "" THEN None
                                    ELSE Some(rr.reason),
                         !.counterexample =
                             Some(build_counterexample(counterexample))]
      [] OTHER -> base

\* the match on run_result
reduce(rr) ==
    LET base == base_result(rr) IN
    CASE rr.kind = "Abort" /\ rr.reason = TooManyGlobalRejects ->
            [base EXCEPT !.reason = Some(TooManyRejects(max_global_rejects))]
      [] rr.kind = "Abort" /\ rr.reason # TooManyGlobalRejects ->
            [base EXCEPT !.reason = Some(rr.reason)]
      [] rr.kind = "Fail" ->
            [base EXCEPT !.reason = IF rr.reason = "" THEN None
                                    ELSE Some(rr.reason),
                         !.counterexample =
                             Some(build_counterexample(counterexample))]
      [] OTHER -> base

\* fuzz after runner.run returned; &calldata[4..] panics on a short calldata
Reduce ==
    /\ pc = "reduce"
    /\ LET rr == Unwrap(run_result) IN
       IF rr.kind = "Fail" /\ Len(counterexample.calldata) < 4
       THEN /\ pc' = "panic"
            /\ UNCHANGED result
       ELSE /\ pc' = "done"
            /\ result' = Some(reduce(rr))
    /\ UNCHANGED <<viewVars, inputVars, cellVars, state, weights, runnerVars, run_result,
                   histVars>>

Next ==
    \/ Start
    \/ RunCase
    \/ RunPassed
    \/ RunAbort
    \/ ShrinkCase
    \/ ShrinkDone
    \/ Reduce

Spec == Init /\ [][Next]_vars

\* ------------------------------------------- the weights, for every setting
\* one executor (argument 1 passes, the others revert), every configured weight
InitW ==
    /\ exec = [c \in Inputs |-> IF c[5] = 1 THEN BehaviourList[1]
                                ELSE BehaviourList[3]]
    /\ should_fail = FALSE
    /\ dictionary_weight \in 0..MaxWeight
    /\ pc = "start"
    /\ first_case = None
    /\ gas_by_case = <<>>
    /\ counterexample = DefaultCounterExample
    /\ traces = None
    /\ coverage = None
    /\ state = {}
    /\ weights = <<>>
    /\ successes = 0
    /\ rejects = 0
    /\ shrinks = 0
    /\ last_reason = ""
    /\ run_result = None
    /\ result = None
    /\ iter = 0
    /\ last = None
    /\ lastCE = None
    /\ lastCase = None
    /\ firstCE = None
    /\ caseLog = <<>>
    /\ okCount = 0
    /\ cases = <<>>
    /\ gas_out = None
    /\ create_in = None
    /\ create_out = None

SpecW == InitW /\ [][Next]_vars

\* ------------------------------------------------------------ FuzzedCases
\* the campaign is not running while the value types are exercised
FuzzIdle ==
    /\ exec = [c \in Inputs |-> BehaviourList[1]]
    /\ should_fail = FALSE
    /\ dictionary_weight = 40
    /\ first_case = None
    /\ gas_by_case = <<>>
    /\ counterexample = DefaultCounterExample
    /\ traces = None
    /\ coverage = None
    /\ state = {}
    /\ weights = <<>>
    /\ successes = 0
    /\ rejects = 0
    /\ shrinks = 0
    /\ last_reason = ""
    /\ run_result = None
    /\ result = None
    /\ iter = 0
    /\ last = None
    /\ lastCE = None
    /\ lastCase = None
    /\ firstCE = None
    /\ caseLog = <<>>
    /\ okCount = 0

fuzzVars == <<inputVars, cellVars, state, weights, runnerVars, run_result,
              result, histVars>>

\* a FuzzCase; only gas and stipend matter to FuzzedCases
FuzzCase(gas, stipend) ==
    [calldata |-> DefaultBytes, gas |-> gas, stipend |-> stipend]

FuzzCases == { FuzzCase(g, s) : g \in 0..MaxGas, s \in 0..MaxGas }

CaseLists == UNION { [1..n -> FuzzCases] : n \in 0..MaxLen }

\* slice::sort_by_key is a stable sort: c goes behind every element whose key
\* is not larger
RECURSIVE insert_by_gas(_, _)
insert_by_gas(sorted, c) ==
    IF sorted = <<>> THEN <<c>>
    ELSE IF sorted[Len(sorted)].gas <= c.gas THEN Append(sorted, c)
    ELSE Append(insert_by_gas(SubSeq(sorted, 1, Len(sorted) - 1), c),
                sorted[Len(sorted)])

RECURSIVE sort_by_gas(_)
sort_by_gas(cs) ==
    IF cs = <<>> THEN <<>>
    ELSE insert_by_gas(sort_by_gas(SubSeq(cs, 1, Len(cs) - 1)), cs[Len(cs)])

\* FuzzedCases::new
FuzzedCases_new(cs) == sort_by_gas(cs)

\* FuzzedCases::highest: the last case of the sorted vector
highest(cs) == IF cs = <<>> THEN None ELSE Some(cs[Len(cs)])

\* a u64 result: n, or 2^64 - n when wrapped
U64(n) == [kind |-> "value", wrapped |-> FALSE, n |-> n]
Wrapped(n) == [kind |-> "value", wrapped |-> TRUE, n |-> n]
OverflowPanic == [kind |-> "panic", wrapped |-> FALSE, n |-> 0]

\* u64 `-`: with overflow checks the build panics, without them it wraps
sub(a, b, overflow_checks) ==
    IF a >= b THEN U64(a - b)
    ELSE IF overflow_checks THEN OverflowPanic
    ELSE Wrapped(b - a)

\* FuzzedCases::highest_gas
highest_gas(cs, with_stipend, overflow_checks) ==
    IF ~IsSome(highest(cs)) THEN U64(0)
    ELSE LET c == Unwrap(highest(cs)) IN
         IF with_stipend THEN U64(c.gas)
         ELSE sub(c.gas, c.stipend, overflow_checks)

InitG ==
    /\ FuzzIdle
    /\ pc = "cases"
    /\ cases \in CaseLists
    /\ gas_out = None
    /\ create_in = None
    /\ create_out = None

New ==
    /\ pc = "cases"
    /\ cases' = FuzzedCases_new(cases)
    /\ pc' = "built"
    /\ UNCHANGED <<fuzzVars, gas_out, create_in, create_out>>

HighestGas ==
    /\ pc = "built"
    /\ \E with_stipend \in BOOLEAN, overflow_checks \in BOOLEAN :
         gas_out' = Some([with_stipend |-> with_stipend,
                          ret |-> highest_gas(cases, with_stipend,
                                              overflow_checks)])
    /\ pc' = "asked"
    /\ UNCHANGED <<fuzzVars, cases, create_in, create_out>>

NextG ==
    \/ New
    \/ HighestGas

SpecG == InitG /\ [][NextG]_vars

\* ------------------------------------------- BaseCounterExample::create
UnknownContract == "UnknownContract"
UnknownFunction == "UnknownFunction"
FailedDecodeInput == "FailedDecodeInput"
SlicePanic == "range end index 4 out of range for slice"

OtherSelector == <<5, 6, 7, 8>>
UnlistedSelector == <<9, 9, 9, 9>>

\* an ABI function: its selector, its signature, the length of its encoded
\* arguments
Function(sel, sig, n) == [short_signature |-> sel, signature |-> sig, nargs |-> n]

Abis == { <<>>,
          <<Function(Selector, "f", 1)>>,
          <<Function(OtherSelector, "g", 0), Function(Selector, "f", 1)>> }

\* the known address and its contract, per ABI
ContractsByAddress == { [a \in {"known"} |-> [name |-> "C", abi |-> abi]] :
                        abi \in Abis }

Prefixes(b) == { SubSeq(b, 1, n) : n \in 0..Len(b) }

ArgBytes == UNION { [1..n -> {1}] : n \in 0..MaxArgBytes }

CreateBytes ==
    UNION { Prefixes(sel \o t) :
            sel \in {Selector, OtherSelector, UnlistedSelector}, t \in ArgBytes }

CreateInputs ==
    [sender : {"sender"}, addr : {"known", "unknown"}, bytes : CreateBytes,
     contracts : ContractsByAddress, traces : {None, Some("arena")}]

Ok(v) == [kind |-> "Ok", value |-> v]
Err(e) == [kind |-> "Err", value |-> e]
Panicked(m) == [kind |-> "Panic", value |-> m]

\* Function::decode_input: the argument bytes decode iff they have the
\* length the function encodes to
func_decode_input(f, b) ==
    IF Len(b) = f.nargs THEN Ok(b) ELSE Err("decode")

\* Iterator::find over abi.functions() with the closure of the selector test;
\* the closure slices bytes[0..4] for every function it looks at
RECURSIVE find_function(_, _)
find_function(abi, bytes) ==
    IF abi = <<>> THEN Ok(None)
    ELSE IF Len(bytes) < 4 THEN Panicked(SlicePanic)
    ELSE IF abi[1].short_signature = SubSeq(bytes, 1, 4) THEN Ok(Some(abi[1]))
    ELSE find_function(Tail(abi), bytes)

\* BaseCounterExample::create
create(sender, addr, bytes, contracts, tr) ==
    IF addr \notin DOMAIN contracts THEN Err(UnknownContract)
    ELSE LET name == contracts[addr].name
             abi == contracts[addr].abi
             found == find_function(abi, bytes)
         IN  IF found.kind = "Panic" THEN found
             ELSE IF ~IsSome(found.value) THEN Err(UnknownFunction)
             ELSE LET func == Unwrap(found.value)
                      args == func_decode_input(func, SubSeq(bytes, 5, Len(bytes)))
                  IN  IF args.kind = "Err" THEN Err(FailedDecodeInput)
                      ELSE Ok([sender |-> Some(sender),
                               addr |-> Some(addr),
                               calldata |-> bytes,
                               signature |-> Some(func.signature),
                               contract_name |-> Some(name),
                               traces |-> tr,
                               args |-> args.value])

InitC ==
    /\ FuzzIdle
    /\ pc = "create"
    /\ cases = <<>>
    /\ gas_out = None
    /\ create_in \in { Some(i) : i \in CreateInputs }
    /\ create_out = None

Create ==
    /\ pc = "create"
    /\ LET i == Unwrap(create_in) IN
         create_out' = Some(create(i.sender, i.addr, i.bytes, i.contracts,
                                   i.traces))
    /\ pc' = "created"
    /\ UNCHANGED <<fuzzVars, cases, gas_out, create_in>>

NextC == Create

SpecC == InitC /\ [][NextC]_vars

\* ---------------------------------------------------------------- claims
Res == Unwrap(result)
RR == Unwrap(run_result)
Last == Unwrap(last)
Reported == Unwrap(Res.counterexample)
Finished == pc = "done"
\* call_raw returned a result whose bytes are the assume sentinel
ReturnedMagic(calldata) ==
    /\ ~exec[calldata].err
    /\ exec[calldata].result = ASSUME_MAGIC_RETURN_CODE
\* the step is one invocation of the callback
Invoked == iter' = iter + 1

\* C1: whenever a session ends with the runner returning Fail, the reported
\* counter-example carries the calldata held in the counter-example slot,
\* which is the calldata of the most recent iteration classified as
\* CounterExample, whatever final input the runner reports and whatever
\* passing or rejected iterations ran after it.
C1_ReportedIsSlot ==
    (Finished /\ RR.kind = "Fail") =>
        /\ IsSome(Res.counterexample)
        /\ Reported.calldata = counterexample.calldata
        /\ IsSome(lastCE)
        /\ Reported.calldata = Unwrap(lastCE)

\* a Fail session whose last iteration passed or was rejected and whose
\* runner reports another final input than the stored one
C1_Witness ==
    /\ Finished
    /\ RR.kind = "Fail"
    /\ Last.outcome \in {"Case", "Reject"}
    /\ RR.input # Reported.calldata

\* C2: whenever a session ends with success = false because the runner
\* returned Fail, running single_fuzz again on the reported counter-example
\* calldata, against the same executor, gives a CounterExample.
C2_Stability ==
    (Finished /\ RR.kind = "Fail") =>
        /\ ~Res.success
        /\ single_fuzz(should_fail, Reported.calldata).kind = "CounterExample"

\* a Fail session whose reported reason is an infrastructure failure
C2_Witness ==
    /\ Finished
    /\ RR.kind = "Fail"
    /\ RR.reason \in {FailedContractCall, EmptyChangeset}
    /\ IsSome(Res.counterexample)

\* C3 as stated: every iteration whose call returns the assume sentinel is
\* surfaced as a reject and neither appends to gas_by_case nor writes the
\* counter-example slot.
C3_AssumeAlwaysRejected ==
    [][(Invoked /\ ReturnedMagic(Last'.input)) =>
          /\ Last'.ret = "Reject"
          /\ gas_by_case' = gas_by_case
          /\ counterexample' = counterexample]_vars

\* C3 amended: an iteration whose call result has a state_changeset and
\* returns the assume sentinel is surfaced as a reject, whatever reverted and
\* should_fail are; no iteration returning the sentinel appends to
\* gas_by_case or writes the counter-example slot.
C3_AssumeRejectedWithChangeset ==
    [][(Invoked /\ ReturnedMagic(Last'.input)) =>
          /\ IsSome(exec[Last'.input].state_changeset) => Last'.ret = "Reject"
          /\ gas_by_case' = gas_by_case
          /\ counterexample' = counterexample]_vars

\* a non-reverting sentinel return under should_fail, rejected after a Case
C3_Witness ==
    /\ IsSome(last)
    /\ ReturnedMagic(Last.input)
    /\ IsSome(exec[Last.input].state_changeset)
    /\ ~exec[Last.input].reverted
    /\ should_fail
    /\ Last.ret = "Reject"
    /\ Len(gas_by_case) > 0

\* every call returns a result without a state_changeset
AllEmptyChangeset ==
    \A c \in Inputs : ~exec[c].err /\ ~IsSome(exec[c].state_changeset)

\* C4: with an executor that never returns a state_changeset, once the runner
\* has returned Fail the session has a result with success = false, reason
\* "empty changeset" and no decoded counter-example arguments.
C4_EmptyChangesetResult ==
    (AllEmptyChangeset /\ IsSome(run_result) /\ pc \in {"done", "panic"}
        /\ RR.kind = "Fail") =>
        /\ IsSome(result)
        /\ ~Res.success
        /\ Res.reason = Some(EmptyChangeset)
        /\ \/ ~IsSome(Res.counterexample)
           \/ Reported.args = <<>>

C6_TooManyRejects ==
    (Finished /\ RR.kind = "Abort" /\ RR.reason = TooManyGlobalRejects) =>
        /\ ~Res.success
        /\ Res.reason = Some(TooManyRejects(max_global_rejects))
        /\ Res.counterexample = None
        /\ Len(Res.gas_by_case) = okCount
        /\ iter = okCount + max_global_rejects + 1

\* the cap is reached after a passing iteration was recorded
C6_Witness ==
    /\ Finished
    /\ RR.kind = "Abort"
    /\ RR.reason = TooManyGlobalRejects
    /\ okCount > 0

\* every call reverts, with a state_changeset and without the sentinel
AllRevert ==
    \A c \in Inputs :
        /\ ~exec[c].err
        /\ IsSome(exec[c].state_changeset)
        /\ exec[c].result # ASSUME_MAGIC_RETURN_CODE
        /\ exec[c].reverted

\* C7: for a target whose every call reverts, under should_fail every
\* iteration is recorded as a Case and the session ends with success = true
\* and no counter-example; without should_fail the first iteration is a
\* CounterExample and the session ends with success = false.
C7_ExpectedFailureInversion ==
    AllRevert =>
        /\ should_fail =>
              /\ IsSome(last) => (Last.outcome = "Case" /\ Last.ret = "Ok")
              /\ Len(gas_by_case) = iter
              /\ pc # "panic"
              /\ (Finished /\ RR.kind # "Abort") =>
                    Res.success /\ Res.counterexample = None
        /\ ~should_fail =>
              /\ iter >= 1 => (IsSome(lastCE) /\ okCount = 0 /\ pc # "main")
              /\ (Finished /\ iter >= 1) =>
                    ~Res.success /\ IsSome(Res.counterexample)

\* C8 as stated: after success the traces are present exactly when a Case was
\* recorded; after Fail exactly when the stored counter-example has a trace.
C8_TracesIffCaseRecorded ==
    /\ (Finished /\ RR.kind = "Ok") =>
          (IsSome(Res.traces) <=> Len(Res.gas_by_case) > 0)
    /\ (Finished /\ RR.kind = "Fail") =>
          (IsSome(Res.traces) <=> exec[Unwrap(lastCE)].hasTrace)

\* C8 amended: after success the traces are those of the last recorded Case,
\* so they are present exactly when a Case was recorded and the call of the
\* last one carried a trace; after Fail they are those of the stored
\* counter-example, present exactly when its raw result carried a trace.
C8_TracesOfLastCase ==
    /\ (Finished /\ RR.kind = "Ok") =>
          /\ IsSome(Res.traces) <=>
                (IsSome(lastCase) /\ exec[Unwrap(lastCase)].hasTrace)
          /\ IsSome(Res.traces) => Res.traces = lastCase
    /\ (Finished /\ RR.kind = "Fail") =>
          /\ IsSome(Res.traces) <=> exec[Unwrap(lastCE)].hasTrace
          /\ IsSome(Res.traces) => Res.traces = lastCE

\* a passed session with cases recorded whose last call carried no trace
C8_Witness ==
    /\ Finished
    /\ RR.kind = "Ok"
    /\ Len(Res.gas_by_case) > 0
    /\ ~exec[Unwrap(lastCase)].hasTrace
    /\ Res.traces = None

\* C9: a Case iteration whose call result has no coverage map leaves
\* merged_coverage as it was, also when it already holds a map, and the loop
\* goes on.
C9_NoCoverageLeavesMerged ==
    [][(Invoked /\ Last'.outcome = "Case" /\ ~exec[Last'.input].hasCov) =>
          /\ coverage' = coverage
          /\ Last'.ret = "Ok"
          /\ pc' = pc]_vars

\* C10: at dictionary_weight 100 the union holds the dictionary strategy
\* alone, at 0 the uniform strategy alone, and in between the uniform one at
\* 100 - dictionary_weight followed by the dictionary one at dictionary_weight.
C10_StrategyWeights ==
    pc # "start" =>
        /\ dictionary_weight = 100 =>
              weights = << <<100, "fuzz_calldata_from_state">> >>
        /\ dictionary_weight = 0 =>
              weights = << <<100, "fuzz_calldata">> >>
        /\ (0 < dictionary_weight /\ dictionary_weight < 100) =>
              weights = << <<100 - dictionary_weight, "fuzz_calldata">>,
                           <<dictionary_weight, "fuzz_calldata_from_state">> >>

\* the union built at dictionary_weight 100
C10_Witness ==
    /\ pc = "main"
    /\ dictionary_weight = 100
    /\ Len(weights) = 1

\* C11 as stated: in a session that ends in Fail the reported calldata is that
\* of the first iteration classified as CounterExample, also when later
\* shrink iterations are CounterExamples too.
C11_ReportedIsFirst ==
    (Finished /\ RR.kind = "Fail") => Reported.calldata = Unwrap(firstCE)

\* C11 amended: the reported calldata is that of the last iteration
\* classified as CounterExample; it is that of the first one exactly when no
\* later CounterExample iteration ran on another calldata.
C11_ReportedIsLast ==
    (Finished /\ RR.kind = "Fail") =>
        /\ IsSome(firstCE)
        /\ Reported.calldata = Unwrap(lastCE)
        /\ (Reported.calldata = Unwrap(firstCE)) <=> (lastCE = firstCE)

\* a Fail session whose shrink iterations found a CounterExample on another
\* calldata than the first one
C11_Witness ==
    /\ Finished
    /\ RR.kind = "Fail"
    /\ lastCE # firstCE
    /\ Reported.calldata = Unwrap(lastCE)

\* C12: after a session that ends in success with a Case recorded, the logs
\* of the result, and the console logs decoded from them, are those the last
\* successful run emitted.
C12_LogsOfLastSuccessfulRun ==
    (Finished /\ RR.kind = "Ok" /\ Len(Res.gas_by_case) > 0) =>
        /\ Res.logs = call_raw(Unwrap(lastCase)).call.logs
        /\ Res.decoded_logs =
              decode_console_logs(call_raw(Unwrap(lastCase)).call.logs)

\* C13: at every point gas_by_case holds one (gas, stipend) pair per
\* iteration classified as Case, in delivery order, its length is the number
\* of callback invocations that returned Ok, and no entry comes from another
\* iteration.
C13_GasByCaseOnePerOk ==
    /\ Len(gas_by_case) = okCount
    /\ Len(gas_by_case) = Len(caseLog)
    /\ \A i \in 1..Len(caseLog) :
          /\ single_fuzz(should_fail, caseLog[i]).kind = "Case"
          /\ gas_by_case[i] = <<exec[caseLog[i]].gas_used,
                                exec[caseLog[i]].stipend>>

\* C14: the dictionary is fed in exactly the iterations whose call returned a
\* result with a state_changeset, before the sentinel and success checks:
\* those iterations end as Case, CounterExample or reject, and an iteration
\* failing with "failed contract call" or "empty changeset" leaves it alone.
C14_AbsorbIffChangeset ==
    [][Invoked =>
          IF ~exec[Last'.input].err
                /\ IsSome(exec[Last'.input].state_changeset)
          THEN /\ state' = collect_state_from_call(Last'.input, state)
               /\ Last'.input \in state'
               /\ Last'.outcome \in {"Case", "CounterExample", "Reject"}
          ELSE /\ state' = state
               /\ Last'.input \notin state'
               /\ Last'.outcome = "Fail"]_vars

\* the first iteration is rejected by the sentinel and has fed the dictionary
C14_Witness ==
    /\ iter = 1
    /\ Last.outcome = "Reject"
    /\ state = {Last.input}

\* C15: first_case is set exactly when gas_by_case is not empty, it is the
\* case of the first iteration classified as Case, never replaced by a later
\* one, and its (gas, stipend) is the first pair of gas_by_case.
C15_FirstCaseIsFirst ==
    /\ IsSome(first_case) <=> Len(gas_by_case) > 0
    /\ IsSome(first_case) =>
          /\ Unwrap(first_case).calldata = caseLog[1]
          /\ <<Unwrap(first_case).gas, Unwrap(first_case).stipend>>
                = gas_by_case[1]
    /\ Finished =>
          Res.first_case = IF IsSome(first_case) THEN Unwrap(first_case)
                           ELSE DefaultFuzzCase

\* two Cases on different calldata, first_case still the first
C15_Witness ==
    /\ Len(caseLog) >= 2
    /\ caseLog[1] # caseLog[2]
    /\ Unwrap(first_case).calldata = caseLog[1]

\* every call classified as Case carries a coverage map
EveryCaseHasCoverage ==
    \A c \in Inputs :
        single_fuzz(should_fail, c).kind = "Case" => exec[c].hasCov

\* the per-pc sum of the coverage maps of the Cases, whatever their order
ExpectedCoverage ==
    IF caseLog = <<>> THEN None
    ELSE Some([p \in {0} \cup { caseLog[i][5] : i \in 1..Len(caseLog) } |->
                  IF p = 0 THEN Len(caseLog)
                  ELSE Cardinality({ i \in 1..Len(caseLog) :
                                        caseLog[i][5] = p })])

\* C16: when every Case carries a coverage map, the coverage is the per-pc
\* sum of the coverage maps of the iterations classified as Case, and of no
\* other iteration, in whatever order they ran.
C16_CoverageIsSum ==
    EveryCaseHasCoverage =>
        /\ coverage = ExpectedCoverage
        /\ Finished => Res.coverage = ExpectedCoverage

\* a finished session with two Cases and an iteration that was not a Case
C16_Witness ==
    /\ Finished
    /\ EveryCaseHasCoverage
    /\ Len(caseLog) >= 2
    /\ iter > Len(caseLog)
    /\ IsSome(Res.coverage)

\* C19: an invocation changes only the cells of its own outcome.  A Case
\* leaves the counter-example slot alone, appends to gas_by_case and replaces
\* the retained trace; a CounterExample changes the slot only; a reject or an
\* infrastructure failure changes none of first_case, gas_by_case, the slot,
\* traces and coverage.
C19_FrameOfEachOutcome ==
    [][Invoked =>
          /\ Last'.outcome = "Case" =>
                /\ counterexample' = counterexample
                /\ Len(gas_by_case') = Len(gas_by_case) + 1
                /\ traces' = call_raw(Last'.input).call.traces
          /\ Last'.outcome = "CounterExample" =>
                /\ counterexample'.calldata = Last'.input
                /\ UNCHANGED <<first_case, gas_by_case, traces, coverage>>
          /\ Last'.outcome \in {"Reject", "Fail"} =>
                UNCHANGED cellVars]_vars

\* a passing shrink iteration after a stored counter-example
C19_Witness ==
    /\ pc = "shrink"
    /\ IsSome(last)
    /\ Last.outcome = "Case"
    /\ IsSome(lastCE)
    /\ counterexample.calldata = Unwrap(lastCE)
    /\ Len(gas_by_case) > 0

RECURSIVE SumWeights(_)
\* the sum of the weights of a list of weighted strategies
SumWeights(w) == IF w = <<>> THEN 0 ELSE w[1][1] + SumWeights(Tail(w))

\* C20: for every configured dictionary_weight, also above 100, the list
\* handed to the union is not empty and each weight in it is positive; up to
\* 100 the weights sum to 100.
C20_WeightsWellFormed ==
    pc # "start" =>
        /\ Len(weights) > 0
        /\ \A i \in 1..Len(weights) : weights[i][1] > 0
        /\ dictionary_weight <= 100 => SumWeights(weights) = 100

\* the list built for a configured weight above 100
C20_Witness ==
    /\ pc = "main"
    /\ dictionary_weight > 100
    /\ weights = << <<dictionary_weight, "fuzz_calldata_from_state">> >>


\* ------------------------------------------------------------------- C17
HighestCase == cases[Len(cases)]

\* C17: for every FuzzedCases built by FuzzedCases::new, highest_gas(false)
\* returns gas - stipend of the case with the largest gas as a plain value,
\* and that case has gas >= stipend.
C17_HighestGasNoUnderflow ==
    (pc = "asked" /\ ~Unwrap(gas_out).with_stipend /\ cases # <<>>) =>
        /\ \A i \in 1..Len(cases) : cases[i].gas <= HighestCase.gas
        /\ HighestCase.gas >= HighestCase.stipend
        /\ Unwrap(gas_out).ret = U64(HighestCase.gas - HighestCase.stipend)

\* ------------------------------------------------------------------- C18
CreateIn == Unwrap(create_in)
CreateOut == Unwrap(create_out)
KnownContract == CreateIn.addr \in DOMAIN CreateIn.contracts
CreateAbi == CreateIn.contracts[CreateIn.addr].abi
Matching ==
    { k \in 1..Len(CreateAbi) :
        /\ Len(CreateIn.bytes) >= 4
        /\ CreateAbi[k].short_signature = SubSeq(CreateIn.bytes, 1, 4) }
Matched == CreateAbi[CHOOSE k \in Matching : \A j \in Matching : k <= j]
ArgsDecode ==
    Len(CreateIn.bytes) - 4 = Matched.nargs

\* C18: create returns a value for every input, deciding in this order:
\* unknown address -> UnknownContract; no selector of the ABI equals the first
\* 4 bytes -> UnknownFunction; arguments do not decode -> FailedDecodeInput;
\* otherwise a record with sender, addr, signature, contract_name present and
\* calldata equal to the input bytes.
C18_CreateOrder ==
    pc = "created" =>
        IF ~KnownContract THEN CreateOut = Err(UnknownContract)
        ELSE IF Matching = {} THEN CreateOut = Err(UnknownFunction)
        ELSE IF ~ArgsDecode THEN CreateOut = Err(FailedDecodeInput)
        ELSE /\ CreateOut.kind = "Ok"
             /\ CreateOut.value.sender = Some(CreateIn.sender)
             /\ CreateOut.value.addr = Some(CreateIn.addr)
             /\ CreateOut.value.signature = Some(Matched.signature)
             /\ CreateOut.value.contract_name = Some("C")
             /\ CreateOut.value.calldata = CreateIn.bytes


====
